---------------------------- MODULE Spec2Model ----------------------------
(***************************************************************************)
(* A model of viewstate/parse.py: the marker-dispatch decoder of the       *)
(* ASP.NET ViewState format.                                               *)
(*                                                                         *)
(* The decoder is a family of pure, mutually recursive functions from a    *)
(* byte buffer to a (value, remaining bytes) pair or an exception.  Each   *)
(* parse method is an operator computed the way the code computes it; the  *)
(* state machine draws an input buffer and applies an entry point to it.   *)
(***************************************************************************)
EXTENDS Integers, Sequences, FiniteSets, TLC

VARIABLES
    buf,    \* the byte buffer handed to the decoder
    gen,    \* how buf was built (the recipe an encoder followed), for reference
    entry,  \* which entry point was called on buf: "" before the call
    out     \* what the call returned or raised

vars == <<buf, gen, entry, out>>

(***************************************************************************)
(* Bytes and slices.  A bytes object is a sequence of 0..255; Python       *)
(* indexes from 0, TLA+ from 1.                                            *)
(***************************************************************************)
Max(a, b) == IF a >= b THEN a ELSE b

Min(a, b) == IF a <= b THEN a ELSE b

\* b[k:] for a machine-sized k >= 0: slicing never raises
Drop(b, k) == SubSeq(b, Min(k, Len(b)) + 1, Len(b))

\* b[:k] for a machine-sized k >= 0
Take(b, k) == SubSeq(b, 1, Min(k, Len(b)))

(***************************************************************************)
(* Python values.  Python integers are unbounded; the varint decoder can   *)
(* return up to 35 bits, more than the model checker's integers hold, so   *)
(* an int is kept as two limbs: its value is hi * 2^28 + lo with           *)
(* 0 <= lo < 2^28.                                                         *)
(***************************************************************************)
PyNone == [t |-> "None"]

PyBool(v) == [t |-> "bool", v |-> v]

PyInt(hi, lo) == [t |-> "int", hi |-> hi, lo |-> lo]

\* a small int, below 2^28
PyNat(k) == PyInt(0, k)

\* a str, as the sequence of its code points
PyStr(s) == [t |-> "str", s |-> s]

PyList(items) == [t |-> "list", items |-> items]

PyTuple(items) == [t |-> "tuple", items |-> items]

\* a dict, as its (key, value) entries in insertion order
PyDict(items) == [t |-> "dict", items |-> items]

PyDatetime(y, m, d) == [t |-> "datetime", ymd |-> <<y, m, d>>]

\* k < n for a machine-sized k and a Python int n
Less(k, n) == n.hi > 0 \/ k < n.lo

\* b[:n] and b[n:] for a Python int n >= 0
TakeN(b, n) == IF Less(Len(b), n) THEN b ELSE Take(b, n.lo)

DropN(b, n) == IF Less(Len(b), n) THEN <<>> ELSE Drop(b, n.lo)

(***************************************************************************)
(* What a parse call produces: err = "" and (val, rest) when it returns,   *)
(* the exception's name in err when it raises.  depth, calls and log       *)
(* record the Parser.parse calls made while it ran: the largest number     *)
(* active at once, how many were made, and (bytes in, bytes left) of each  *)
(* one that returned.                                                      *)
(***************************************************************************)
Ok(val, rest) ==
    [err |-> "", val |-> val, rest |-> rest, depth |-> 0, calls |-> 0, log |-> {}]

Raise(kind) ==
    [err |-> kind, val |-> PyNone, rest |-> <<>>, depth |-> 0, calls |-> 0, log |-> {}]

\* r, which ran after the calls recorded in prev
After(prev, r) ==
    [r EXCEPT !.depth = Max(prev.depth, @),
              !.calls = prev.calls + @,
              !.log = prev.log \cup @]

\* what the caller of a parse method observes
Outcome(r) == <<r.err, r.val, r.rest>>

IndexError == "IndexError"

KeyError == "KeyError"

TypeError == "TypeError"

MemoryError == "MemoryError"

UnboundLocalError == "UnboundLocalError"

UnicodeDecodeError == "UnicodeDecodeError"

UnknownMarker == "ViewStateException: Unknown marker"

UnknownTypeFlag == "ViewStateException: Unknown type flag"

UnknownFormattedString == "ViewStateException: Unknown formatted string type marker"

(***************************************************************************)
(* Integer.parse: the 7-bit-per-byte varint.                               *)
(***************************************************************************)
\* OrShifted with the shift forgotten: n |= (tmp & 0x7f)
OrShifted_NoShift(n, x, bits) == [n EXCEPT !.lo = @ + x]

\* n | (x << bits) for x < 128 and n < 2^bits, bits one of 0, 7, 14, 21, 28:
\* the shifted bits lie above all of n's, so the bitwise or adds them
OrShifted(n, x, bits) ==
    IF bits < 28
    THEN [n EXCEPT !.lo = @ + x * (2^bits)]
    ELSE [n EXCEPT !.hi = x]

RECURSIVE IntegerLoop(_, _, _, _)
IntegerLoop(b, n, bits, i) ==
    IF bits < 32
    THEN IF i >= Len(b)
         THEN Raise(IndexError)                        \* tmp = b[i]
         ELSE LET tmp == b[i + 1]
                  n2 == OrShifted(n, tmp % 128, bits)  \* n |= (tmp & 0x7f) << bits
              IN  IF tmp < 128                         \* not (tmp & 0x80)
                  THEN Ok(n2, Drop(b, i + 1))
                  ELSE IntegerLoop(b, n2, bits + 7, i + 1)
    ELSE Ok(n, Drop(b, i))                             \* overflow

IntegerParse(b) == IntegerLoop(b, PyNat(0), 0, 0)

(***************************************************************************)
(* Text.  bytes.decode() is strict UTF-8; str.format renders an int in     *)
(* decimal and a str as itself.                                            *)
(***************************************************************************)
IsContinuation(x) == x >= 128 /\ x <= 191

\* the second byte a three-byte sequence led by b0 allows (no overlong forms,
\* no surrogates)
Second3(b0) ==
    IF b0 = 224 THEN 160..191 ELSE IF b0 = 237 THEN 128..159 ELSE 128..191

\* the second byte a four-byte sequence led by b0 allows (up to U+10FFFF)
Second4(b0) ==
    IF b0 = 240 THEN 144..191 ELSE IF b0 = 244 THEN 128..143 ELSE 128..191

\* the code points of s from (1-based) position i on, after acc; ok is FALSE
\* where decode() raises
RECURSIVE Utf8Loop(_, _, _)
Utf8Loop(s, i, acc) ==
    IF i > Len(s) THEN [ok |-> TRUE, s |-> acc]
    ELSE LET b0 == s[i]
             bad == [ok |-> FALSE, s |-> <<>>]
         IN  IF b0 < 128 THEN Utf8Loop(s, i + 1, Append(acc, b0))
             ELSE IF b0 >= 194 /\ b0 <= 223
             THEN IF i + 1 <= Len(s) /\ IsContinuation(s[i + 1])
                  THEN Utf8Loop(s, i + 2,
                           Append(acc, (b0 - 192) * 64 + (s[i + 1] - 128)))
                  ELSE bad
             ELSE IF b0 >= 224 /\ b0 <= 239
             THEN IF /\ i + 2 <= Len(s)
                     /\ s[i + 1] \in Second3(b0)
                     /\ IsContinuation(s[i + 2])
                  THEN Utf8Loop(s, i + 3,
                           Append(acc, (b0 - 224) * 4096 + (s[i + 1] - 128) * 64
                                       + (s[i + 2] - 128)))
                  ELSE bad
             ELSE IF b0 >= 240 /\ b0 <= 244
             THEN IF /\ i + 3 <= Len(s)
                     /\ s[i + 1] \in Second4(b0)
                     /\ IsContinuation(s[i + 2])
                     /\ IsContinuation(s[i + 3])
                  THEN Utf8Loop(s, i + 4,
                           Append(acc, (b0 - 240) * 262144 + (s[i + 1] - 128) * 4096
                                       + (s[i + 2] - 128) * 64 + (s[i + 3] - 128)))
                  ELSE bad
             ELSE bad

Utf8Decode(s) == Utf8Loop(s, 1, <<>>)

\* the decimal digits of a machine-sized k >= 0
RECURSIVE Digits(_)
Digits(k) ==
    IF k < 10 THEN <<48 + k>> ELSE Append(Digits(k \div 10), 48 + (k % 10))

\* str(n) for a Python int n >= 0.  2^28 = 2684 * 10^5 + 35456, so
\* n = (hi * 2684) * 10^5 + (hi * 35456 + lo): the digits above and below
\* 10^5 are computed apart
IntDigits(n) ==
    LET low  == n.hi * 35456 + n.lo
        high == n.hi * 2684 + (low \div 100000)
    IN  IF high = 0 THEN Digits(low)
        ELSE Digits(high) \o Tail(Digits(100000 + (low % 100000)))

\* '{}'.format(v) for the values the decoders format: a str or an int
Format(v) == IF v.t = "str" THEN v.s ELSE IntDigits(v)

Txt_EnumHead == <<69, 110, 117, 109, 58, 32>>                       \* 'Enum: '

Txt_EnumVal == <<44, 32, 118, 97, 108, 58, 32>>                     \* ', val: '

Txt_ColorUnknown ==                                                 \* 'Color: unknown'
    <<67, 111, 108, 111, 114, 58, 32, 117, 110, 107, 110, 111, 119, 110>>

Txt_Unit == <<85, 110, 105, 116, 58, 32>>                           \* 'Unit: '

Txt_RGBAHead == <<82, 71, 66, 65, 40>>                              \* 'RGBA('

Txt_Comma == <<44>>                                                 \* ','

Txt_Close == <<41>>                                                 \* ')'

Txt_Stringref == <<83, 116, 114, 105, 110, 103, 114, 101, 102, 32, 35>>  \* 'Stringref #'

Txt_Formatted ==                                                    \* 'Formatted string: '
    <<70, 111, 114, 109, 97, 116, 116, 101, 100, 32, 115, 116, 114, 105,
      110, 103, 58, 32>>

Txt_Space == <<32>>                                                 \* ' '

Txt_TypeRef == <<32, 116, 121, 112, 101, 32, 114, 101, 102, 32>>    \* ' type ref '

(***************************************************************************)
(* The decoders that never re-enter the dispatcher.                        *)
(***************************************************************************)
\* Const.parse, for the subclass whose const is c
ConstParse(c, remain) == Ok(c, remain)

StringParse(b) ==
    IF Len(b) = 0 THEN Raise(IndexError)               \* n = b[0]
    ELSE LET r == IntegerParse(b)
         IN  IF r.err # "" THEN r
             ELSE LET s == Utf8Decode(TakeN(r.rest, r.val))
                  IN  IF s.ok THEN Ok(PyStr(s.s), DropN(r.rest, r.val))
                      ELSE Raise(UnicodeDecodeError)

EnumParse(b) ==
    IF Len(b) = 0 THEN Raise(IndexError)               \* b[0]
    ELSE LET e == IF b[1] \in {\H29, \H2a} THEN StringParse(Tail(b))
                  ELSE IF b[1] = \H2b THEN IntegerParse(Tail(b))
                  ELSE Raise(UnboundLocalError)        \* remain was never bound
         IN  IF e.err # "" THEN e
             ELSE LET v == IntegerParse(e.rest)
                  IN  IF v.err # "" THEN v
                      ELSE Ok(PyStr(Txt_EnumHead \o Format(e.val)
                                    \o Txt_EnumVal \o Format(v.val)),
                              v.rest)

\* ColorParse with the slice turned round: b[:2] for b[2:]
ColorParse_Prefix(b) == Ok(PyStr(Txt_ColorUnknown), Take(b, 2))

ColorParse(b) == Ok(PyStr(Txt_ColorUnknown), Drop(b, 2))

DatetimeParse(b) == Ok(PyDatetime(2000, 1, 1), Drop(b, 8))

UnitParse(b) == Ok(PyStr(Txt_Unit), Drop(b, 12))

RGBAParse(b) ==
    IF Len(b) < 4 THEN Raise(IndexError)      \* format() runs out of arguments
    ELSE Ok(PyStr(Txt_RGBAHead \o Digits(b[1]) \o Txt_Comma \o Digits(b[2])
                  \o Txt_Comma \o Digits(b[3]) \o Txt_Comma \o Digits(b[4])
                  \o Txt_Close),
            Drop(b, 4))

\* one run of the body of StringArray.parse's loop; st holds the loop's locals:
\* the list l in val, remain in rest
StringArrayStep(st) ==
    IF Len(st.rest) = 0 THEN Raise(IndexError)         \* remain[0]
    ELSE IF st.rest[1] = 0
    THEN Ok(PyList(Append(st.val.items, PyStr(<<>>))), Tail(st.rest))
    ELSE LET r == StringParse(st.rest)
         IN  IF r.err # "" THEN r
             ELSE Ok(PyList(Append(st.val.items, r.val)), r.rest)

\* for _ in range(n), about to run iteration k, unless an earlier one raised
RECURSIVE StringArrayLoop(_, _, _)
StringArrayLoop(n, k, st) ==
    IF st.err # "" \/ ~Less(k, n) THEN st
    ELSE StringArrayLoop(n, k + 1, StringArrayStep(st))

StringArrayParse(b) ==
    LET r == IntegerParse(b)
    IN  IF r.err # "" THEN r
        ELSE StringArrayLoop(r.val, 0, Ok(PyList(<<>>), r.rest))

StringRefParse(b) ==
    LET r == IntegerParse(b)
    IN  IF r.err # "" THEN r
        ELSE Ok(PyStr(Txt_Stringref \o Format(r.val)), r.rest)

FormattedStringParse(b) ==
    IF Len(b) = 0 THEN Raise(IndexError)               \* b[0]
    ELSE IF b[1] = \H29
    THEN LET s1 == StringParse(Tail(b))
         IN  IF s1.err # "" THEN s1
             ELSE LET s2 == StringParse(s1.rest)
                  IN  IF s2.err # "" THEN s2
                      ELSE Ok(PyStr(Txt_Formatted \o Format(s2.val)
                                    \o Txt_Space \o Format(s1.val)),
                              s2.rest)
    ELSE IF b[1] = \H2b
    THEN LET i == IntegerParse(Tail(b))
         IN  IF i.err # "" THEN i
             ELSE LET s == StringParse(i.rest)
                  IN  IF s.err # "" THEN s
                      ELSE Ok(PyStr(Txt_Formatted \o Format(s.val)
                                    \o Txt_TypeRef \o Format(i.val)),
                              s.rest)
    ELSE Raise(UnknownFormattedString)

TypeParse(b) ==
    IF Len(b) = 0 THEN Raise(IndexError)               \* b[0]
    ELSE IF b[1] \in {\H29, \H2a} THEN StringParse(Tail(b))
    ELSE IF b[1] = \H2b THEN IntegerParse(Tail(b))
    ELSE Raise(UnknownTypeFlag)

(***************************************************************************)
(* Python's dict, as far as Dict.parse uses it: d[k] = v hashes k, which   *)
(* raises TypeError for a list or a dict and for a tuple holding one, and  *)
(* finds an existing key by ==, under which False == 0 and True == 1.      *)
(***************************************************************************)
\* Hashable looking at the key's own type only
Hashable_Shallow(v) == v.t \notin {"list", "dict"}

RECURSIVE Hashable(_)
Hashable(v) ==
    IF v.t \in {"list", "dict"} THEN FALSE
    ELSE IF v.t = "tuple" THEN \A i \in 1..Len(v.items) : Hashable(v.items[i])
    ELSE TRUE

\* an int or a bool as a number: <<hi, lo>>
Number(v) == IF v.t = "bool" THEN <<0, IF v.v THEN 1 ELSE 0>> ELSE <<v.hi, v.lo>>

\* a == b for hashable a and b
RECURSIVE PyEq(_, _)
PyEq(a, b) ==
    IF a.t \in {"int", "bool"} /\ b.t \in {"int", "bool"} THEN Number(a) = Number(b)
    ELSE IF a.t # b.t THEN FALSE
    ELSE IF a.t = "tuple"
    THEN /\ Len(a.items) = Len(b.items)
         /\ \A i \in 1..Len(a.items) : PyEq(a.items[i], b.items[i])
    ELSE a = b

\* the entries of d after d[k] = v, for a hashable k: an equal key keeps its
\* place (and the key object first inserted) and takes the new value
DictSet(d, k, v) ==
    IF \E i \in 1..Len(d) : PyEq(d[i][1], k)
    THEN LET i == CHOOSE j \in 1..Len(d) : PyEq(d[j][1], k)
         IN  [d EXCEPT ![i] = <<d[i][1], v>>]
    ELSE Append(d, <<k, v>>)

(***************************************************************************)
(* The decoders that call back into the dispatcher, Parser.parse.          *)
(***************************************************************************)
RECURSIVE ParserParse(_)

PairParse(b) ==
    LET first == ParserParse(b)
    IN  IF first.err # "" THEN first
        ELSE LET second == After(first, ParserParse(first.rest))
             IN  IF second.err # "" THEN second
                 ELSE [second EXCEPT !.val = PyTuple(<<first.val, second.val>>)]

TripletParse(b) ==
    LET first == ParserParse(b)
    IN  IF first.err # "" THEN first
        ELSE LET second == After(first, ParserParse(first.rest))
             IN  IF second.err # "" THEN second
                 ELSE LET third == After(second, ParserParse(second.rest))
                      IN  IF third.err # "" THEN third
                          ELSE [third EXCEPT
                                  !.val = PyTuple(<<first.val, second.val, third.val>>)]

\* one run of the body of Array.parse's loop; st holds the loop's locals (the
\* list l in val, remain in rest) and the record of the calls made so far
ArrayStep(st) ==
    LET r == After(st, ParserParse(st.rest))
    IN  IF r.err # "" THEN r
        ELSE [r EXCEPT !.val = PyList(Append(st.val.items, r.val))]

\* for _ in range(n), about to run iteration k, unless an earlier one raised
RECURSIVE ArrayLoop(_, _, _)
ArrayLoop(n, k, st) ==
    IF st.err # "" \/ ~Less(k, n) THEN st
    ELSE ArrayLoop(n, k + 1, ArrayStep(st))

\* ArrayParse with the loop begun at 1: range(1, n)
ArrayParse_FromOne(b) ==
    LET r == IntegerParse(b)
    IN  IF r.err # "" THEN r
        ELSE ArrayLoop(r.val, 1, Ok(PyList(<<>>), r.rest))

ArrayParse(b) ==
    LET r == IntegerParse(b)
    IN  IF r.err # "" THEN r
        ELSE ArrayLoop(r.val, 0, Ok(PyList(<<>>), r.rest))

\* one run of the body of TypedArray.parse's loop
TypedArrayStep(st) ==
    LET r == After(st, ParserParse(st.rest))
    IN  IF r.err # "" THEN r
        ELSE [r EXCEPT !.val = PyList(Append(st.val.items, r.val))]

RECURSIVE TypedArrayLoop(_, _, _)
TypedArrayLoop(n, k, st) ==
    IF st.err # "" \/ ~Less(k, n) THEN st
    ELSE TypedArrayLoop(n, k + 1, TypedArrayStep(st))

TypedArrayParse(b) ==
    LET typeval == TypeParse(b)
    IN  IF typeval.err # "" THEN typeval
        ELSE LET r == IntegerParse(typeval.rest)
             IN  IF r.err # "" THEN r
                 ELSE TypedArrayLoop(r.val, 0, Ok(PyList(<<>>), r.rest))

\* SparseArrayStep dropping a write past the end instead of raising
SparseArrayStep_SkipOutOfRange(st) ==
    LET idx == IntegerParse(st.rest)
    IN  IF idx.err # "" THEN After(st, idx)
        ELSE LET r == After(st, ParserParse(idx.rest))
             IN  IF r.err # "" THEN r
                 ELSE IF Less(Len(st.val.items) - 1, idx.val)
                 THEN [r EXCEPT !.val = st.val]
                 ELSE [r EXCEPT !.val = PyList(
                          [st.val.items EXCEPT ![idx.val.lo + 1] = r.val])]

\* one run of the body of SparseArray.parse's loop
SparseArrayStep(st) ==
    LET idx == IntegerParse(st.rest)
    IN  IF idx.err # "" THEN After(st, idx)
        ELSE LET r == After(st, ParserParse(idx.rest))
             IN  IF r.err # "" THEN r
                 ELSE IF Less(Len(st.val.items) - 1, idx.val)  \* l[idx] = val
                 THEN After(r, Raise(IndexError))
                 ELSE [r EXCEPT !.val = PyList(
                          [st.val.items EXCEPT ![idx.val.lo + 1] = r.val])]

RECURSIVE SparseArrayLoop(_, _, _)
SparseArrayLoop(n, k, st) ==
    IF st.err # "" \/ ~Less(k, n) THEN st
    ELSE SparseArrayLoop(n, k + 1, SparseArrayStep(st))

SparseArrayParse(b) ==
    LET type == TypeParse(b)
    IN  IF type.err # "" THEN type
        ELSE LET length == IntegerParse(type.rest)
             IN  IF length.err # "" THEN length
                 ELSE LET n == IntegerParse(length.rest)
                      IN  IF n.err # "" THEN n
                          \* [None] * length: a list of 2^28 slots or more is
                          \* taken to exhaust memory
                          ELSE IF length.val.hi > 0 THEN Raise(MemoryError)
                          ELSE SparseArrayLoop(n.val, 0,
                                   Ok(PyList([i \in 1..length.val.lo |-> PyNone]),
                                      n.rest))

\* one run of the body of Dict.parse's loop; st holds the dict d in val,
\* remain in rest
DictStep(st) ==
    LET key == After(st, ParserParse(st.rest))
    IN  IF key.err # "" THEN key
        ELSE LET v == After(key, ParserParse(key.rest))
             IN  IF v.err # "" THEN v
                 ELSE IF ~Hashable(key.val)                    \* d[k] = v
                 THEN After(v, Raise(TypeError))
                 ELSE [v EXCEPT !.val = PyDict(
                          DictSet(st.val.items, key.val, v.val))]

RECURSIVE DictLoop(_, _, _)
DictLoop(n, k, st) ==
    IF st.err # "" \/ k >= n THEN st
    ELSE DictLoop(n, k + 1, DictStep(st))

\* DictParse reading its count as the other containers do, as a varint
DictParse_VarintCount(b) ==
    LET r == IntegerParse(b)
    IN  IF r.err # "" THEN r
        ELSE DictLoop(r.val.lo, 0, Ok(PyDict(<<>>), r.rest))

DictParse(b) ==
    IF Len(b) = 0 THEN Raise(IndexError)               \* n = b[0]
    ELSE DictLoop(b[1], 0, Ok(PyDict(<<>>), Tail(b)))

(***************************************************************************)
(* The registry and the dispatcher.                                        *)
(***************************************************************************)
\* the subclasses of Parser in the order the module defines them, each with
\* its marker attribute as a tuple (empty where the class has none)
Classes ==
    << [name |-> "Parser",          marker |-> <<>>],
       [name |-> "Const",           marker |-> <<>>],
       [name |-> "NoneConst",       marker |-> <<\H64>>],
       [name |-> "EmptyConst",      marker |-> <<\H65>>],
       [name |-> "ZeroConst",       marker |-> <<\H66>>],
       [name |-> "TrueConst",       marker |-> <<\H67>>],
       [name |-> "FalseConst",      marker |-> <<\H68>>],
       [name |-> "Integer",         marker |-> <<\H02>>],
       [name |-> "String",          marker |-> <<\H05, \H1e>>],
       [name |-> "Enum",            marker |-> <<\H0b>>],
       [name |-> "Color",           marker |-> <<\H0a>>],
       [name |-> "Pair",            marker |-> <<\H0f>>],
       [name |-> "Triplet",         marker |-> <<\H10>>],
       [name |-> "Datetime",        marker |-> <<\H06>>],
       [name |-> "Unit",            marker |-> <<\H1b>>],
       [name |-> "RGBA",            marker |-> <<\H09>>],
       [name |-> "StringArray",     marker |-> <<\H15>>],
       [name |-> "Array",           marker |-> <<\H16>>],
       [name |-> "StringRef",       marker |-> <<\H1f>>],
       [name |-> "FormattedString", marker |-> <<\H28>>],
       [name |-> "SparseArray",     marker |-> <<\H3c>>],
       [name |-> "Dict",            marker |-> <<\H18>>],
       [name |-> "Type",            marker |-> <<>>],
       [name |-> "TypedArray",      marker |-> <<\H14>>] >>

\* Register taking a tuple of markers for its first member
Register_FirstMarkerOnly(registry, cls) ==
    LET ms == {cls.marker[i] : i \in (1..Len(cls.marker)) \cap {1}}
    IN  [m \in (DOMAIN registry) \cup ms |->
            IF m \in ms THEN cls.name ELSE registry[m]]

\* ParserMeta.__init__ for class cls: registry[m] = cls for each of its markers
Register(registry, cls) ==
    LET ms == {cls.marker[i] : i \in 1..Len(cls.marker)}
    IN  [m \in (DOMAIN registry) \cup ms |->
            IF m \in ms THEN cls.name ELSE registry[m]]

\* Parser.registry once the first k classes are defined
RECURSIVE RegistryAfter(_)
RegistryAfter(k) ==
    IF k = 0 THEN [m \in {} |-> ""]
    ELSE Register(RegistryAfter(k - 1), Classes[k])

Registry == RegistryAfter(Len(Classes))

\* Parser.registry[marker]().parse(remain)
Dispatch(cls, remain) ==
    CASE cls = "NoneConst"       -> ConstParse(PyNone, remain)
      [] cls = "EmptyConst"      -> ConstParse(PyStr(<<>>), remain)
      [] cls = "ZeroConst"       -> ConstParse(PyNat(0), remain)
      [] cls = "TrueConst"       -> ConstParse(PyBool(TRUE), remain)
      [] cls = "FalseConst"      -> ConstParse(PyBool(FALSE), remain)
      [] cls = "Integer"         -> IntegerParse(remain)
      [] cls = "String"          -> StringParse(remain)
      [] cls = "Enum"            -> EnumParse(remain)
      [] cls = "Color"           -> ColorParse(remain)
      [] cls = "Pair"            -> PairParse(remain)
      [] cls = "Triplet"         -> TripletParse(remain)
      [] cls = "Datetime"        -> DatetimeParse(remain)
      [] cls = "Unit"            -> UnitParse(remain)
      [] cls = "RGBA"            -> RGBAParse(remain)
      [] cls = "StringArray"     -> StringArrayParse(remain)
      [] cls = "Array"           -> ArrayParse(remain)
      [] cls = "StringRef"       -> StringRefParse(remain)
      [] cls = "FormattedString" -> FormattedStringParse(remain)
      [] cls = "SparseArray"     -> SparseArrayParse(remain)
      [] cls = "Dict"            -> DictParse(remain)
      [] cls = "TypedArray"      -> TypedArrayParse(remain)

\* r as the result of one Parser.parse call on b: the call itself is counted,
\* and logged when it returns
Entered(b, r) ==
    [r EXCEPT !.depth = @ + 1,
              !.calls = @ + 1,
              !.log = IF r.err = "" THEN @ \cup {<<b, r.rest>>} ELSE @]

ParserParse(b) ==
    IF Len(b) = 0 THEN Entered(b, Raise(IndexError))   \* b[0]
    ELSE LET marker == b[1]
             remain == Tail(b)
         IN  IF marker \notin DOMAIN Registry
             THEN Entered(b, Raise(UnknownMarker))
             ELSE LET r == Dispatch(Registry[marker], remain)
                  IN  \* except KeyError covers the decoder's run as well
                      IF r.err = KeyError
                      THEN Entered(b, After(r, Raise(UnknownMarker)))
                      ELSE Entered(b, r)

(***************************************************************************)
(* Input buffers.  The decoder accepts any byte string; the buffers        *)
(* explored are all short strings over a few bytes, every marker byte in   *)
(* front of fixed tails and under nesting, and the encodings an encoder    *)
(* of the format would write for varints, arrays, sparse arrays and        *)
(* dictionaries, each with bytes that follow the value.  A recipe records  *)
(* what was encoded beside the bytes.                                      *)
(***************************************************************************)
MaxLen == 4         \* longest raw buffer

MaxVarLen == 5      \* longest raw buffer of varint bytes

MaxCount == 3       \* most elements of an encoded array

MaxSparse == 2      \* largest declared length (and index) of an encoded sparse array

MaxEntries == 2     \* most entries of an encoded sparse array or dictionary

\* the count of the one long array and the one long dictionary: the smallest
\* whose byte has the high bit set
BigCount == \H80

SeqsUpTo(S, n) == UNION {[1..k -> S] : k \in 0..n}

RECURSIVE Concat(_)
Concat(ss) == IF ss = <<>> THEN <<>> ELSE Head(ss) \o Concat(Tail(ss))

Repeat(x, n) == [i \in 1..n |-> x]

\* the varint an encoder writes for v < 2^28: seven bits a byte, low bits
\* first, the high bit set on every byte but the last
RECURSIVE EncodeVarint(_)
EncodeVarint(v) ==
    IF v < 128 THEN <<v>> ELSE <<128 + (v % 128)>> \o EncodeVarint(v \div 128)

RawBytes == {\H00, \H01, \H02, \H05, \H0f, \H16, \H18, \H66}

VarBytes == {\H01, \H7f, \H90, \Hff}

VarintValues ==
    (0..3) \cup {2^7 - 1, 2^7, 268, 2^14 - 1, 2^14, 2^21 - 1, 2^21, 2^28 - 1}

Tails == {<<>>, <<\H66>>, <<\Hff, \H00>>}

\* bytes that put a marker at nesting depth 1, 2 and 3
Wraps == {<<>>, <<\H0f, \H66>>, <<\H16, \H01, \H10, \H64, \H64>>}

MarkerTails == {<<>>, <<\H2b>> \o Repeat(0, 12)}

\* encoded values and what they decode to
E_None == [bytes |-> <<\H64>>, val |-> PyNone, eq |-> "None"]

E_Empty == [bytes |-> <<\H65>>, val |-> PyStr(<<>>), eq |-> "''"]

E_Zero == [bytes |-> <<\H66>>, val |-> PyNat(0), eq |-> "0"]

E_True == [bytes |-> <<\H67>>, val |-> PyBool(TRUE), eq |-> "1"]

E_False == [bytes |-> <<\H68>>, val |-> PyBool(FALSE), eq |-> "0"]

E_One == [bytes |-> <<\H02, \H01>>, val |-> PyNat(1), eq |-> "1"]

E_268 == [bytes |-> <<\H02, \H8c, \H02>>, val |-> PyNat(268), eq |-> "268"]

E_StrA == [bytes |-> <<\H05, \H01, \H41>>, val |-> PyStr(<<\H41>>), eq |-> "'A'"]

E_Pair ==
    [bytes |-> <<\H0f, \H66, \H67>>,
     val |-> PyTuple(<<PyNat(0), PyBool(TRUE)>>), eq |-> "(0, 1)"]

E_PairAlt ==
    [bytes |-> <<\H0f, \H68, \H02, \H01>>,
     val |-> PyTuple(<<PyBool(FALSE), PyNat(1)>>), eq |-> "(0, 1)"]

E_Array == [bytes |-> <<\H16, \H01, \H66>>, val |-> PyList(<<PyNat(0)>>), eq |-> ""]

E_ArrayEmpty == [bytes |-> <<\H16, \H00>>, val |-> PyList(<<>>), eq |-> ""]

E_TypedArray ==
    [bytes |-> <<\H14, \H2b, \H00, \H00>>, val |-> PyList(<<>>), eq |-> ""]

E_SparseArray ==
    [bytes |-> <<\H3c, \H2b, \H00, \H00, \H00>>, val |-> PyList(<<>>), eq |-> ""]

E_StringArray == [bytes |-> <<\H15, \H00>>, val |-> PyList(<<>>), eq |-> ""]

E_Dict == [bytes |-> <<\H18, \H00>>, val |-> PyDict(<<>>), eq |-> ""]

E_PairOfArray ==
    [bytes |-> <<\H0f, \H16, \H00, \H66>>,
     val |-> PyTuple(<<PyList(<<>>), PyNat(0)>>), eq |-> ""]

ArrayElements == {E_None, E_Zero, E_True, E_268, E_StrA, E_Array}

SparseElements == {E_Zero, E_True}

\* type descriptors: an integer reference and a string name
TypeDescs == {<<\H2b, \H03>>, <<\H29, \H01, \H41>>}

\* keys Python can hash
PlainKeys == {E_Zero, E_False, E_True, E_One, E_Empty, E_Pair, E_PairAlt}

\* keys that are containers, and a pair that holds one
ContainerKeys ==
    {E_ArrayEmpty, E_TypedArray, E_SparseArray, E_StringArray, E_Dict, E_Array}

NestedContainerKeys == {E_PairOfArray}

DictValues == {E_Zero, E_Empty}

BytesOf(es) == Concat([i \in 1..Len(es) |-> es[i].bytes])

RawInputs(S, n) == {[kind |-> "raw", bytes |-> s] : s \in SeqsUpTo(S, n)}

MarkerInputs ==
    {[kind |-> "marker", m |-> m, wrap |-> w, tail |-> t, bytes |-> w \o <<m>> \o t] :
        m \in 0..255, w \in Wraps, t \in MarkerTails}

VarintInputs ==
    {[kind |-> "varint", v |-> v, tail |-> t, bytes |-> EncodeVarint(v) \o t] :
        v \in VarintValues, t \in Tails}

ArrayOf(es, t) ==
    [kind |-> "array", elems |-> es, tail |-> t,
     bytes |-> <<\H16>> \o EncodeVarint(Len(es)) \o BytesOf(es) \o t]

\* BigCount zeros: a count that takes two varint bytes
BigArray ==
    [kind |-> "array", elems |-> Repeat(E_Zero, BigCount), tail |-> <<>>,
     bytes |-> <<\H16>> \o EncodeVarint(BigCount) \o Repeat(\H66, BigCount)]

ArrayInputs ==
    {ArrayOf(es, t) : es \in SeqsUpTo(ArrayElements, MaxCount), t \in Tails}
    \cup {BigArray}

SparseEntries == [idx : 0..MaxSparse, elem : SparseElements]

SparseInputs ==
    {[kind |-> "sparse", type |-> ty, length |-> len, entries |-> es, tail |-> t,
      bytes |-> <<\H3c>> \o ty \o EncodeVarint(len) \o EncodeVarint(Len(es))
                \o Concat([i \in 1..Len(es) |->
                              EncodeVarint(es[i].idx) \o es[i].elem.bytes])
                \o t] :
        ty \in TypeDescs, len \in 0..MaxSparse,
        es \in SeqsUpTo(SparseEntries, MaxEntries), t \in {<<>>, <<\H66>>}}

DictOf(es, t) ==
    [kind |-> "dict", entries |-> es, tail |-> t,
     bytes |-> <<\H18, Len(es)>>
               \o Concat([i \in 1..Len(es) |-> es[i].key.bytes \o es[i].val.bytes])
               \o t]

\* BigCount entries 0 -> '': a count byte with its high bit set
BigDict ==
    [kind |-> "dict", entries |-> Repeat([key |-> E_Zero, val |-> E_Empty], BigCount),
     tail |-> <<\H65>>,
     bytes |-> <<\H18, BigCount>>
               \o [i \in 1..(2 * BigCount) |-> IF i % 2 = 1 THEN \H66 ELSE \H65]
               \o <<\H65>>]

DictInputs ==
    {DictOf(es, t) :
        es \in SeqsUpTo([key : PlainKeys \cup NestedContainerKeys \cup {E_ArrayEmpty},
                         val : DictValues], MaxEntries),
        t \in {<<>>, <<\H66>>}}
    \cup {DictOf(<<[key |-> k, val |-> E_Zero]>>, <<>>) : k \in ContainerKeys}
    \cup {BigDict}

Inputs ==
    RawInputs(RawBytes, MaxLen) \cup RawInputs(VarBytes, MaxVarLen)
    \cup MarkerInputs \cup VarintInputs \cup ArrayInputs \cup SparseInputs
    \cup DictInputs

(***************************************************************************)
(* The state machine: a caller draws a buffer and calls one entry point    *)
(* on it, once.                                                            *)
(***************************************************************************)
NotCalled == Raise("not called")

Init ==
    /\ gen \in Inputs
    /\ buf = gen.bytes
    /\ entry = ""
    /\ out = NotCalled

\* Parser.parse(buf)
CallParser ==
    /\ entry = ""
    /\ entry' = "Parser"
    /\ out' = ParserParse(buf)
    /\ UNCHANGED <<buf, gen>>

\* Integer.parse(buf)
CallInteger ==
    /\ entry = ""
    /\ entry' = "Integer"
    /\ out' = IntegerParse(buf)
    /\ UNCHANGED <<buf, gen>>

\* String.parse(buf)
CallString ==
    /\ entry = ""
    /\ entry' = "String"
    /\ out' = StringParse(buf)
    /\ UNCHANGED <<buf, gen>>

Next == CallParser \/ CallInteger \/ CallString

Spec == Init /\ [][Next]_vars

(***************************************************************************)
(* Properties.  The code's exceptions stand for the specification's error  *)
(* names: IndexError for TruncatedInput and IndexOutOfRange, TypeError     *)
(* (unhashable type) for UnsupportedKeyType, ViewStateException 'Unknown   *)
(* marker' for UnknownMarker.                                              *)
(***************************************************************************)
IsSuffix(s, b) == Len(s) <= Len(b) /\ s = Drop(b, Len(b) - Len(s))

IsStrictPrefix(p, b) == Len(p) < Len(b) /\ p = Take(b, Len(p))

\* f[lo] + ... + f[hi]
RECURSIVE SumRange(_, _, _)
SumRange(f, lo, hi) ==
    IF lo > hi THEN 0
    ELSE IF lo = hi THEN f[lo]
    ELSE LET mid == (lo + hi) \div 2
         IN  SumRange(f, lo, mid) + SumRange(f, mid + 1, hi)

\* b ends with the pieces ps and then t: the suffix of b that begins after
\* piece i
AfterPiece(b, ps, t, i) ==
    Drop(b, Len(b) - Len(t) - SumRange([k \in 1..Len(ps) |-> Len(ps[k])], i + 1, Len(ps)))

\* each piece was decoded by one dispatcher call that began where the piece
\* before it ended and left what follows the piece
DecodedInTurn(b, ps, t, log) ==
    \A i \in 1..Len(ps) : <<AfterPiece(b, ps, t, i - 1), AfterPiece(b, ps, t, i)>> \in log

ElementPieces(es) == [k \in 1..Len(es) |-> es[k].bytes]

EntryPieces(es) ==
    [k \in 1..(2 * Len(es)) |->
        IF k % 2 = 1 THEN es[(k + 1) \div 2].key.bytes ELSE es[k \div 2].val.bytes]

\* ---- C1 ----
\* encoded values the format calls valid: what the encoder writes for an
\* integer, a string, the containers, and a color, a datetime and a unit
\* with the 2, 8 and 12 bytes their decoders skip
ValidEncodings ==
    {e.bytes : e \in ArrayElements \cup PlainKeys \cup ContainerKeys
                     \cup NestedContainerKeys}
    \cup {<<\H0a, 0, 0>>, <<\H06>> \o Repeat(0, 8), <<\H1b>> \o Repeat(0, 12)}

\* C1: the truncation law.  Decoding a strict prefix of a valid encoded
\* value, the empty buffer included, raises the truncation error
\* (IndexError) and never returns a value.
C1_TruncationLaw ==
    (entry = "Parser" /\ \E e \in ValidEncodings : IsStrictPrefix(buf, e))
        => out.err = IndexError

\* ---- C2 ----
\* the marker table of the format, as the specification lists it
TableMarkers ==
    {\H02, \H05, \H06, \H09, \H0a, \H0b, \H0f, \H10, \H14, \H15, \H16, \H18,
     \H1b, \H1e, \H1f, \H28, \H3c} \cup (\H64..\H68)

TableDecoder(m, b) ==
    CASE m = \H64 -> ConstParse(PyNone, b)
      [] m = \H65 -> ConstParse(PyStr(<<>>), b)
      [] m = \H66 -> ConstParse(PyNat(0), b)
      [] m = \H67 -> ConstParse(PyBool(TRUE), b)
      [] m = \H68 -> ConstParse(PyBool(FALSE), b)
      [] m = \H02 -> IntegerParse(b)
      [] m \in {\H05, \H1e} -> StringParse(b)
      [] m = \H0b -> EnumParse(b)
      [] m = \H0a -> ColorParse(b)
      [] m = \H0f -> PairParse(b)
      [] m = \H10 -> TripletParse(b)
      [] m = \H06 -> DatetimeParse(b)
      [] m = \H1b -> UnitParse(b)
      [] m = \H09 -> RGBAParse(b)
      [] m = \H15 -> StringArrayParse(b)
      [] m = \H16 -> ArrayParse(b)
      [] m = \H1f -> StringRefParse(b)
      [] m = \H28 -> FormattedStringParse(b)
      [] m = \H3c -> SparseArrayParse(b)
      [] m = \H18 -> DictParse(b)
      [] m = \H14 -> TypedArrayParse(b)

\* what the caller sees when the value whose decode is d sits last under the
\* nesting w: nothing around it, second of a pair after a zero, or third of a
\* triplet of Nones that is the one element of an array
Wrapped(w, d) ==
    IF d.err # "" \/ w = <<>> THEN Outcome(d)
    ELSE IF w[1] = \H0f THEN <<"", PyTuple(<<PyNat(0), d.val>>), d.rest>>
    ELSE <<"", PyList(<<PyTuple(<<PyNone, PyNone, d.val>>)>>), d.rest>>

\* C2: the dispatcher reads the first byte as the marker.  A marker outside
\* the table fails with UnknownMarker, at top level and under nesting; a
\* marker of the table gives exactly what its decoder gives on the bytes
\* after the marker.  The type-descriptor flags 0x29, 0x2a and 0x2b are not
\* markers.
C2_MarkerDispatch ==
    entry = "Parser" =>
        /\ Len(buf) > 0 =>
              IF buf[1] \in TableMarkers
              THEN Outcome(out) = Outcome(TableDecoder(buf[1], Tail(buf)))
              ELSE out.err = UnknownMarker
        /\ gen.kind = "marker" =>
              IF gen.m \in TableMarkers
              THEN Outcome(out) = Wrapped(gen.wrap, TableDecoder(gen.m, gen.tail))
              ELSE out.err = UnknownMarker

\* the flag 0x29 under an array and a triplet is refused as a marker
C2_Witness ==
    /\ entry = "Parser"
    /\ gen.kind = "marker"
    /\ gen.m = \H29
    /\ gen.wrap = <<\H16, \H01, \H10, \H64, \H64>>
    /\ out.err = UnknownMarker

\* ---- C3 ----
\* C3: the varint round trip.  Decoding the encoding of v < 2^28 returns v
\* and no bytes; with bytes appended it returns v and exactly those bytes.
C3_VarintRoundTrip ==
    (entry = "Integer" /\ gen.kind = "varint") =>
        /\ out.err = ""
        /\ out.val = PyNat(gen.v)
        /\ out.rest = gen.tail

\* the largest value, on four bytes, with bytes after it
C3_Witness ==
    /\ entry = "Integer"
    /\ gen.kind = "varint"
    /\ gen.v = 2^28 - 1
    /\ buf = <<\Hff, \Hff, \Hff, \H7f, \Hff, \H00>>
    /\ out.val = PyNat(2^28 - 1)
    /\ out.rest = <<\Hff, \H00>>

\* ---- C4 ----
\* C4: every integer the varint decoder returns is below 2^32, that is, its
\* limb above bit 28 is below 2^4, on every input, a fifth byte included.
C4_Within32Bits ==
    (entry = "Integer" /\ out.err = "") => out.val.hi < 2^4

\* ---- C5 ----
\* the entries of es that write slot i
WritesTo(es, i) == {k \in 1..Len(es) : es[k].idx = i}

\* slot i of the decoded list: the last value written to it, None if none
SlotValue(es, i) ==
    IF WritesTo(es, i) = {} THEN PyNone
    ELSE es[CHOOSE k \in WritesTo(es, i) : \A j \in WritesTo(es, i) : j <= k].elem.val

\* C5: the sparse-array invariant.  When every index is below the declared
\* length the decode returns a list of exactly that length, each slot the
\* last value written to it and None where nothing was written; when some
\* index is at or past the length the decode fails with IndexError.
C5_SparseArrayInvariant ==
    (entry = "Parser" /\ gen.kind = "sparse") =>
        IF \A k \in 1..Len(gen.entries) : gen.entries[k].idx < gen.length
        THEN /\ out.err = ""
             /\ out.val.t = "list"
             /\ Len(out.val.items) = gen.length
             /\ \A i \in 1..gen.length :
                    out.val.items[i] = SlotValue(gen.entries, i - 1)
             /\ out.rest = gen.tail
        ELSE out.err = IndexError

\* length 2, slot 1 written twice, slot 0 never
C5_Witness ==
    /\ entry = "Parser"
    /\ gen.kind = "sparse"
    /\ gen.length = 2
    /\ gen.entries = <<[idx |-> 1, elem |-> E_Zero], [idx |-> 1, elem |-> E_True]>>
    /\ out.err = ""
    /\ out.val = PyList(<<PyNone, PyBool(TRUE)>>)

\* ---- C6 ----
\* C6: the container length law.  An array of count n and n encoded
\* elements decodes to a list of exactly n values, the i-th the dispatcher's
\* decode of the i-th element's bytes; the elements are decoded one after
\* another, each call consuming exactly its element's bytes; what follows
\* the n-th element is returned as the remaining bytes.
C6_ArrayLengthLaw ==
    (entry = "Parser" /\ gen.kind = "array") =>
        /\ out.err = ""
        /\ out.val.t = "list"
        /\ Len(out.val.items) = Len(gen.elems)
        /\ \A i \in 1..Len(gen.elems) :
               /\ out.val.items[i] = gen.elems[i].val
               /\ Outcome(ParserParse(gen.elems[i].bytes))
                      = <<"", out.val.items[i], <<>>>>
        /\ DecodedInTurn(buf, ElementPieces(gen.elems), gen.tail, out.log)
        /\ out.rest = gen.tail

\* 16 02 66 67 decodes to [0, True]
C6_Witness ==
    /\ entry = "Parser"
    /\ gen.kind = "array"
    /\ buf = <<\H16, \H02, \H66, \H67>>
    /\ out.val = PyList(<<PyNat(0), PyBool(TRUE)>>)
    /\ out.rest = <<>>

\* ---- C7 ----
\* entry i is the last of es to write its key
LastWrite(es, i) == \A j \in (i + 1)..Len(es) : es[j].key.eq # es[i].key.eq

\* the keys of es equal to entry i's
SameKey(es, i) == {es[j].key.val : j \in {k \in 1..Len(es) : es[k].key.eq = es[i].key.eq}}

\* C7: the dictionary count is one raw byte.  With hashable keys the decode
\* returns a mapping and the bytes after the last entry; count 0 gives the
\* empty mapping and consumes the count byte alone; the entries are decoded
\* in order, key then value; each key is held once, with the value of the
\* last entry that wrote it; a count byte of 0x80 means 128 entries.
C7_DictCount ==
    (entry = "Parser" /\ gen.kind = "dict"
        /\ \A i \in 1..Len(gen.entries) : gen.entries[i].key.eq # "") =>
        /\ out.err = ""
        /\ out.val.t = "dict"
        /\ out.rest = gen.tail
        /\ Len(gen.entries) = 0 => (out.val.items = <<>> /\ out.rest = Drop(buf, 2))
        /\ DecodedInTurn(buf, EntryPieces(gen.entries), gen.tail, out.log)
        /\ Len(out.val.items) =
               Cardinality({gen.entries[i].key.eq : i \in 1..Len(gen.entries)})
        /\ \A i \in 1..Len(gen.entries) :
               LastWrite(gen.entries, i) =>
                   \E j \in 1..Len(out.val.items) :
                       /\ out.val.items[j][1] \in SameKey(gen.entries, i)
                       /\ out.val.items[j][2] = gen.entries[i].val.val
        /\ buf[2] = BigCount => out.calls = 1 + 2 * BigCount

\* the count byte 0x80: 128 entries 0 -> '', one key left, and the byte after
\* the last entry returned
C7_Witness ==
    /\ entry = "Parser"
    /\ gen.kind = "dict"
    /\ buf[2] = \H80
    /\ Len(gen.entries) = BigCount
    /\ out.err = ""
    /\ out.val = PyDict(<< <<PyNat(0), PyStr(<<>>)>> >>)
    /\ out.rest = <<\H65>>

\* ---- C8 ----
IsContainer(v) == v.t \in {"list", "dict"}

\* v is a container or a tuple that holds one, at any depth
RECURSIVE HoldsContainer(_)
HoldsContainer(v) ==
    \/ IsContainer(v)
    \/ v.t = "tuple" /\ \E i \in 1..Len(v.items) : HoldsContainer(v.items[i])

\* the mapping holds every key of es
KeysKept(es, d) ==
    \A i \in 1..Len(es) : \E j \in 1..Len(d) : d[j][1] \in SameKey(es, i)

\* C8 as stated: a dictionary with a key that decodes to an array, a typed
\* array, a sparse array, a string array or a dictionary fails with
\* TypeError; with scalar, string and tuple keys only it returns a mapping
\* that holds them.
C8_ContainerKeysOnly ==
    (entry = "Parser" /\ gen.kind = "dict") =>
        IF \E i \in 1..Len(gen.entries) : IsContainer(gen.entries[i].key.val)
        THEN out.err = TypeError
        ELSE out.err = "" /\ out.val.t = "dict" /\ KeysKept(gen.entries, out.val.items)

\* C8, amended: a dictionary of complete entries fails with TypeError when
\* a key decodes to a container or to a tuple that holds one at any depth;
\* with any other keys it returns a mapping that holds them.
C8_UnhashableKeys ==
    (entry = "Parser" /\ gen.kind = "dict") =>
        IF \E i \in 1..Len(gen.entries) : HoldsContainer(gen.entries[i].key.val)
        THEN out.err = TypeError
        ELSE out.err = "" /\ out.val.t = "dict" /\ KeysKept(gen.entries, out.val.items)

\* 18 01 0f 16 00 66 66: the key is the pair ([], 0)
C8_Witness ==
    /\ entry = "Parser"
    /\ gen.kind = "dict"
    /\ buf = <<\H18, \H01, \H0f, \H16, \H00, \H66, \H66>>
    /\ gen.entries[1].key.val = PyTuple(<<PyList(<<>>), PyNat(0)>>)
    /\ out.err = TypeError

\* ---- C9 ----
\* C9: the decoder keeps the number of dispatcher calls active at once under
\* a limit fixed ahead of the input, failing on deeper nesting.  The code
\* names no limit; were there one no larger than MaxLen, the length of the
\* longest raw buffer, no decode would have more than MaxLen calls active.
C9_DepthBounded ==
    entry = "Parser" => out.depth <= MaxLen

\* ---- C10 ----
\* every dispatcher call that returned was given a suffix of the buffer and
\* left a suffix of what it was given, shorter by the marker at least
ConsumesPrefix(b, log) ==
    \A c \in log : /\ IsSuffix(c[1], b)
                   /\ IsSuffix(c[2], c[1])
                   /\ Len(c[2]) < Len(c[1])

\* C10 as stated: every call that returned consumed a non-empty prefix, and
\* a decode of a buffer of L > 0 bytes makes at most L dispatcher calls.
C10_AtMostLenCalls ==
    (entry = "Parser" /\ Len(buf) > 0) =>
        /\ ConsumesPrefix(buf, out.log)
        /\ out.calls <= Len(buf)

\* C10, amended: every dispatcher call that returned consumed a non-empty
\* prefix of its bytes and left the suffix; a decode that returns its value
\* made at most L calls on L bytes, one that raises at most L + 1 (the last
\* on the empty buffer, which consumes nothing); the elements of an array
\* and the keys and values of a dictionary are each decoded from what the
\* one before left.
C10_LeftToRight ==
    entry = "Parser" =>
        /\ ConsumesPrefix(buf, out.log)
        /\ out.calls <= Len(buf) + 1
        /\ out.err = "" =>
              /\ out.calls <= Len(buf)
              /\ <<buf, out.rest>> \in out.log
        /\ (out.err = "" /\ gen.kind = "array") =>
              DecodedInTurn(buf, ElementPieces(gen.elems), gen.tail, out.log)
        /\ (out.err = "" /\ gen.kind = "dict") =>
              DecodedInTurn(buf, EntryPieces(gen.entries), gen.tail, out.log)

\* 0f 66: the pair's first value is decoded from 66, and the call for the
\* second, on the empty buffer, is the third on two bytes
C10_Witness ==
    /\ entry = "Parser"
    /\ buf = <<\H0f, \H66>>
    /\ out.calls = 3
    /\ <<(<<\H66>>), <<>>>> \in out.log
    /\ out.err = IndexError

=============================================================================
